---- MODULE Spec2Model ----
(***************************************************************************)
(* Model of the duplicate-detection and insert engine of                   *)
(* src/modules/escritura.py (insert_new_records and                        *)
(* insert_regulations_component) running against the transactional store   *)
(* reached through DatabaseManager (src/modules/db.py), and of the         *)
(* validation engine of src/modules/validacion.py (DataValidator).         *)
(*                                                                         *)
(* Text values are sequences of one-character strings, so that trimming,   *)
(* the '|'-joined comparison key, the numeric and date conversions and the *)
(* regex match are computed as the code computes them.  For the insert     *)
(* engine a DataFrame is a sequence of rows, every row carrying the pandas *)
(* index label it had in the input batch (idx); for the validator it is a  *)
(* set of columns and a sequence of rows over these columns.               *)
(***************************************************************************)
EXTENDS Integers, Sequences, FiniteSets, TLC

\* ------------------------------------------------------------------ bounds
MaxBatch == 2          \* rows in one input batch
MaxRuns == 2           \* calls of insert_new_records one writer makes
MaxConcBatch == 1      \* rows in one input batch of the two-writer specification

\* ------------------------------------------------------------------ values
Procs == {1, 2}
Entities == {"E1", "E2"}

NULL == <<"NULL">>                     \* None / NaN / SQL NULL
NoneText == <<"N", "o", "n", "e">>     \* str(None)
EmptyText == <<>>
Pipe == <<"|">>

\* id_rows['components_id'] = 7
COMPONENTS_ID == 7

\* Series.astype(str): text stays, a missing value becomes the text 'None'
AsStr(v) == IF v = NULL THEN NoneText ELSE v

\* Series.fillna(''): a missing value becomes the empty text
FillNa(v) == IF v = NULL THEN EmptyText ELSE v

\* SQL COALESCE(external_link, '')
Coalesce(v) == IF v = NULL THEN EmptyText ELSE v

RECURSIVE LStrip(_)
LStrip(s) == IF s # <<>> /\ Head(s) = " " THEN LStrip(Tail(s)) ELSE s

RECURSIVE RStrip(_)
RStrip(s) ==
    IF s # <<>> /\ s[Len(s)] = " " THEN RStrip(SubSeq(s, 1, Len(s) - 1)) ELSE s

\* Series.str.strip()
Strip(s) == RStrip(LStrip(s))

\* escritura.py lines 54-61: the same three conversions on either side
Normalize(r) ==
    [r EXCEPT !.created_at = AsStr(@),
              !.external_link = AsStr(FillNa(@)),
              !.title = Strip(AsStr(@))]

\* escritura.py lines 73-83: title + '|' + created_at + '|' + external_link
UniqueKey(r) == r.title \o Pipe \o r.created_at \o Pipe \o r.external_link

\* the column subset of drop_duplicates (escritura.py line 103)
Subset3(r) == <<r.title, r.created_at, r.external_link>>

\* ------------------------------------------------------------------ inputs
RawRow(t, c, e, l) == [title |-> t, created_at |-> c, entity |-> e, external_link |-> l]

\* The rows a scraped batch is drawn from: a plain row, the same row with an
\* untrimmed title and an empty link, two rows whose fields differ but whose
\* '|'-joined texts coincide, a row of another entity that has no date.
RowPlain == RawRow(<<"a">>, <<"d">>, "E1", NULL)
RowUntrimmed == RawRow(<<" ", "a", " ">>, <<"d">>, "E1", EmptyText)
RowPipeTitle == RawRow(<<"a", "|", "d", "|">>, <<"d">>, "E1", EmptyText)
RowPipeLink == RawRow(<<"a">>, <<"d">>, "E1", <<"|", "d", "|">>)
RowOther == RawRow(<<"b">>, NULL, "E2", <<"l">>)

\* a record persisted before the engine existed: untrimmed title, NULL link
RowLegacy == RawRow(<<" ", "a">>, <<"d">>, "E1", NULL)

RowUniverse == {RowPlain, RowUntrimmed, RowPipeTitle, RowPipeLink, RowOther}

\* pd.DataFrame(records): row i of the batch carries index label i
WithIndex(rows) == [i \in 1..Len(rows) |-> [idx |-> i] @@ rows[i]]

SeqsUpTo(S, n) == UNION {[1..k -> S] : k \in 0..n}

Batches == {WithIndex(rows) : rows \in SeqsUpTo(RowUniverse, MaxBatch)}

\* a persisted record: the inserted columns plus the store-assigned identifier
Stored(id, r) ==
    [id |-> id, title |-> r.title, created_at |-> r.created_at,
     entity |-> r.entity, external_link |-> r.external_link]

\* Stores the engine can be started on: empty; one legacy record with an
\* untrimmed title and a NULL link; records whose '|'-joined text coincides
\* with a scraped row's, a record of another entity and an association row.
InitStores ==
    { [regs |-> {}, assoc |-> <<>>],
      [regs |-> {Stored(1, RowLegacy)}, assoc |-> <<>>],
      [regs |-> {Stored(1, Normalize(RowPipeLink)), Stored(2, RowOther)},
       assoc |-> <<[regulations_id |-> 1, components_id |-> COMPONENTS_ID]>>] }

MaxOf(S) == IF S = {} THEN 0 ELSE CHOOSE m \in S : \A x \in S : x <= m

\* ------------------------------------------------------------------ reconciliation
\* SELECT title, created_at, entity, COALESCE(external_link, '') ... WHERE entity = %s
SelectExisting(table, entity) ==
    { [title |-> r.title, created_at |-> r.created_at, entity |-> r.entity,
       external_link |-> Coalesce(r.external_link)] : r \in {x \in table : x.entity = entity} }

\* db_df after lines 54-57 (the frame is only read as a set of keys)
DbDf(existing_records) == {Normalize(r) : r \in existing_records}

\* entity_df = df[df['entity'] == entity].copy(), then lines 59-61
EntityDf(df, entity) ==
    LET keep == SelectSeq(df, LAMBDA r : r.entity = entity)
    IN  [i \in 1..Len(keep) |-> Normalize(keep[i])]

\* the set of existing keys built from the title column alone
ExistingKeysTitleOnly(db_df) == {r.title : r \in db_df}

\* existing_keys = set(db_df['unique_key'])
ExistingKeys(db_df) == {UniqueKey(r) : r \in db_df}

\* entity_df['is_duplicate'] = entity_df['unique_key'].isin(existing_keys)
IsDuplicate(r, db_df) == UniqueKey(r) \in ExistingKeys(db_df)

\* no row is compared with the persisted records
NotExistingKeepsAll(entity_df, db_df) == entity_df

\* lines 66-90: the rows kept as not yet persisted
NotExisting(entity_df, db_df) ==
    IF db_df = {}
    THEN entity_df
    ELSE SelectSeq(entity_df, LAMBDA r : ~IsDuplicate(r, db_df))

\* lines 69 and 90
DuplicatesFound(entity_df, db_df) ==
    IF db_df = {} THEN 0 ELSE Len(entity_df) - Len(NotExisting(entity_df, db_df))

\* drop_duplicates left out: every row not yet persisted is kept
DropDuplicatesKeepAll(s) == s

\* drop_duplicates with keep='last'
DropDuplicatesKeepLast(s) ==
    LET F[i \in 0..Len(s)] ==
          IF i = 0 THEN <<>>
          ELSE IF \E j \in (i + 1)..Len(s) : Subset3(s[j]) = Subset3(s[i])
               THEN F[i - 1]
               ELSE Append(F[i - 1], s[i])
    IN  F[Len(s)]

\* DataFrame.drop_duplicates(subset=[title, created_at, external_link], keep='first')
DropDuplicates(s) ==
    LET F[i \in 0..Len(s)] ==
          IF i = 0 THEN <<>>
          ELSE IF \E j \in 1..(i - 1) : Subset3(s[j]) = Subset3(s[i])
               THEN F[i - 1]
               ELSE Append(F[i - 1], s[i])
    IN  F[Len(s)]

\* line 106
InternalDuplicates(entity_df, duplicates_found, new_records) ==
    Len(entity_df) - duplicates_found - Len(new_records)

\* ------------------------------------------------------------------ store
\* cursor.executemany: row i of the frame gets the next identifier of the sequence
Assign(new_records, first) ==
    [i \in 1..Len(new_records) |-> Stored(first + i - 1, new_records[i])]

Range(s) == {s[i] : i \in 1..Len(s)}

\* connection.commit(): the rows of the transaction become visible to every reader
Committed(table, pending) == table \cup Range(pending)

\* a failure path that commits what the statement wrote so far
RolledBackKeepsRows(table, pending) == table \cup Range(pending)

\* connection.rollback() in bulk_insert's except branch: the rows are discarded
RolledBack(table, pending) == table

\* the read-back ordered by id ascending: the oldest rows of the entity
ReadBackAscending(table, entity, limit) ==
    LET ids == {r.id : r \in {x \in table : x.entity = entity}}
        F[n \in 0..limit] ==
            IF n = 0 THEN [out |-> <<>>, left |-> ids]
            ELSE IF F[n - 1].left = {} THEN F[n - 1]
                 ELSE LET m == CHOOSE x \in F[n - 1].left : \A y \in F[n - 1].left : x <= y
                      IN  [out |-> Append(F[n - 1].out, m), left |-> F[n - 1].left \ {m}]
    IN  F[limit].out

\* SELECT id FROM regulations WHERE entity = %s ORDER BY id DESC LIMIT %s
RECURSIVE TopIds(_, _)
TopIds(ids, n) ==
    IF n = 0 \/ ids = {} THEN <<>>
    ELSE LET m == MaxOf(ids) IN <<m>> \o TopIds(ids \ {m}, n - 1)

ReadBack(table, entity, limit) == TopIds({r.id : r \in {x \in table : x.entity = entity}}, limit)

\* only the first identifier read back is linked
IdRowsFirstOnly(new_ids) ==
    IF new_ids = <<>> THEN <<>>
    ELSE <<[regulations_id |-> new_ids[1], components_id |-> COMPONENTS_ID]>>

\* insert_regulations_component: one row (id, 7) per identifier, in list order
IdRows(new_ids) ==
    [i \in 1..Len(new_ids) |-> [regulations_id |-> new_ids[i], components_id |-> COMPONENTS_ID]]

\* ------------------------------------------------------------------ validated values
\* A cell of a DataFrame or of a validated record: the Python type of the value
\* (k) and its text (v), the text being what str() gives for it.
Cell(k, v) == [k |-> k, v |-> v]

NoneValue == Cell("null", <<>>)        \* None / NaN
StrValue(text) == Cell("str", text)

Digits == {"0", "1", "2", "3", "4", "5", "6", "7", "8", "9"}

DigitVal(c) ==
    CASE c = "0" -> 0 [] c = "1" -> 1 [] c = "2" -> 2 [] c = "3" -> 3 [] c = "4" -> 4
      [] c = "5" -> 5 [] c = "6" -> 6 [] c = "7" -> 7 [] c = "8" -> 8 [] c = "9" -> 9

DigitChar(d) == <<"0", "1", "2", "3", "4", "5", "6", "7", "8", "9">>[d + 1]

IsDigits(s) == s # <<>> /\ \A i \in 1..Len(s) : s[i] \in Digits

\* the number a digit text stands for
RECURSIVE ToNat(_)
ToNat(s) == IF s = <<>> THEN 0 ELSE 10 * ToNat(SubSeq(s, 1, Len(s) - 1)) + DigitVal(s[Len(s)])

\* str(n) for a natural number n
RECURSIVE NatText(_)
NatText(n) == IF n < 10 THEN <<DigitChar(n)>> ELSE NatText(n \div 10) \o <<DigitChar(n % 10)>>

\* %m and %d of strftime: two digits
Pad2(n) == IF n < 10 THEN <<"0">> \o NatText(n) ELSE NatText(n)

\* %Y of strftime: four digits
Pad4(n) ==
    LET t == NatText(n)
    IN  IF Len(t) >= 4 THEN t ELSE SubSeq(<<"0", "0", "0">>, 1, 4 - Len(t)) \o t

\* an optional sign in front of the rest of a numeric text
SignOf(s) == IF s # <<>> /\ Head(s) = "-" THEN <<"-">> ELSE <<>>
Unsigned(s) == IF s # <<>> /\ Head(s) \in {"-", "+"} THEN Tail(s) ELSE s

\* int(value) for a text: surrounding blanks and a sign are accepted, then
\* digits only; [ok |-> FALSE] stands for the ValueError
ParseInt(text) ==
    LET s == Strip(text)
        u == Unsigned(s)
    IN  IF IsDigits(u)
        THEN [ok |-> TRUE,
              value |-> Cell("int", IF ToNat(u) = 0 THEN <<"0">> ELSE SignOf(s) \o NatText(ToNat(u)))]
        ELSE [ok |-> FALSE, value |-> NoneValue]

\* the position of the first '.' of a text, 0 when it has none
DotAt(s) == IF \E i \in 1..Len(s) : s[i] = "." THEN CHOOSE i \in 1..Len(s) : s[i] = "." /\ \A j \in 1..(i - 1) : s[j] # "." ELSE 0

RECURSIVE DropTrailingZeros(_)
DropTrailingZeros(s) ==
    IF s # <<>> /\ s[Len(s)] = "0" THEN DropTrailingZeros(SubSeq(s, 1, Len(s) - 1)) ELSE s

\* float(value) for a text in plain decimal notation: digits, at most one '.',
\* a digit on at least one side of it; the value's text is repr(float)
ParseFloat(text) ==
    LET s == Strip(text)
        u == Unsigned(s)
        d == DotAt(u)
        whole == IF d = 0 THEN u ELSE SubSeq(u, 1, d - 1)
        frac == IF d = 0 THEN <<>> ELSE SubSeq(u, d + 1, Len(u))
        ok == /\ whole \o frac # <<>>
              /\ \A i \in 1..Len(whole) : whole[i] \in Digits
              /\ \A i \in 1..Len(frac) : frac[i] \in Digits
        f == DropTrailingZeros(frac)
    IN  IF ok
        THEN [ok |-> TRUE,
              value |-> Cell("float", SignOf(s) \o NatText(ToNat(whole)) \o <<".">>
                                      \o (IF f = <<>> THEN <<"0">> ELSE f))]
        ELSE [ok |-> FALSE, value |-> NoneValue]

\* the parts of a text between its '-' separators
RECURSIVE SplitDash(_)
SplitDash(s) ==
    IF \E i \in 1..Len(s) : s[i] = "-"
    THEN LET i == CHOOSE k \in 1..Len(s) : s[k] = "-" /\ \A j \in 1..(k - 1) : s[j] # "-"
         IN  <<SubSeq(s, 1, i - 1)>> \o SplitDash(SubSeq(s, i + 1, Len(s)))
    ELSE <<s>>

IsLeap(y) == (y % 4 = 0 /\ y % 100 # 0) \/ y % 400 = 0

DaysIn(y, m) ==
    IF m = 2 THEN (IF IsLeap(y) THEN 29 ELSE 28)
    ELSE IF m \in {4, 6, 9, 11} THEN 30 ELSE 31

\* datetime.strptime(str(value), "%Y-%m-%d"): a four-digit year, a month and a
\* day of one or two digits that name a day of the calendar, nothing else in
\* the text; the value's text is strftime("%Y-%m-%d")
ParseDate(text) ==
    LET parts == SplitDash(text)
        wellFormed == /\ Len(parts) = 3
                      /\ Len(parts[1]) = 4 /\ IsDigits(parts[1])
                      /\ Len(parts[2]) \in {1, 2} /\ IsDigits(parts[2])
                      /\ Len(parts[3]) \in {1, 2} /\ IsDigits(parts[3])
    IN  IF wellFormed
        THEN LET y == ToNat(parts[1])
                 m == ToNat(parts[2])
                 d == ToNat(parts[3])
             IN  IF y >= 1 /\ m \in 1..12 /\ d >= 1 /\ d <= DaysIn(y, m)
                 THEN [ok |-> TRUE,
                       value |-> Cell("date", Pad4(y) \o <<"-">> \o Pad2(m) \o <<"-">> \o Pad2(d))]
                 ELSE [ok |-> FALSE, value |-> NoneValue]
        ELSE [ok |-> FALSE, value |-> NoneValue]

\* str(value) without the trimming
ParseStrNoTrim(text) == [ok |-> TRUE, value |-> Cell("str", text)]

\* str(value).strip()
ParseStr(text) == [ok |-> TRUE, value |-> Cell("str", Strip(text))]

\* validacion.py lines 76-88: the conversion the rule's type asks for; a rule
\* without a type leaves the value as it came
Coerce(type, value) ==
    CASE type = "int" -> ParseInt(value.v)
      [] type = "float" -> ParseFloat(value.v)
      [] type = "date" -> ParseDate(value.v)
      [] type = "str" -> ParseStr(value.v)
      [] OTHER -> [ok |-> TRUE, value |-> value]

\* re.match(regex, text) for a pattern without repetition, given as its
\* sequence of tokens: "^" and "$" anchors, "." any character, "\\d" a digit,
\* any other token the character itself.  The match is tried at the start of
\* the text only and need not reach its end.
RECURSIVE MatchFrom(_, _, _)
MatchFrom(regex, text, pos) ==
    IF regex = <<>> THEN TRUE
    ELSE LET t == Head(regex)
         IN  CASE t = "^" -> pos = 1 /\ MatchFrom(Tail(regex), text, pos)
               [] t = "$" -> pos = Len(text) + 1 /\ MatchFrom(Tail(regex), text, pos)
               [] OTHER -> /\ pos <= Len(text)
                           /\ CASE t = "." -> TRUE
                                [] t = "\\d" -> text[pos] \in Digits
                                [] OTHER -> text[pos] = t
                           /\ MatchFrom(Tail(regex), text, pos + 1)

\* re.search: the match may start anywhere in the text
ReSearch(regex, text) == \E pos \in 1..(Len(text) + 1) : MatchFrom(regex, text, pos)

ReMatch(regex, text) == MatchFrom(regex, text, 1)

\* ------------------------------------------------------------------ rules
VALID_TYPES == {"int", "float", "date", "str"}

\* A value of the rules file as json.load returns it: a mapping (a dict, with
\* its items) or another kind of value.
JsonObject(items) == [json |-> "object", items |-> items]
JsonArray == [json |-> "array", items |-> <<>>]

\* one field's rule, a mapping; type "" stands for a rule without "type",
\* regex <<>> for a rule without "regex", required FALSE for a rule without
\* "required"
Rule(field, type, required, regex) ==
    [json |-> "object", field |-> field, type |-> type, required |-> required,
     regex |-> regex]

\* a field whose rule is a text instead of a mapping
NotARule(field) == [json |-> "string", field |-> field]

\* re.compile(regex) for a pattern given as its tokens: it raises re.error for
\* a repetition with nothing to repeat at the start, for a character set that
\* is not closed and for parentheses that do not pair up
Compiles(regex) ==
    /\ regex # <<>> => Head(regex) \notin {"*", "+", "?"}
    /\ \A i \in 1..Len(regex) :
          /\ regex[i] = "[" => \E j \in (i + 1)..Len(regex) : regex[j] = "]"
          /\ regex[i] = "(" => \E j \in (i + 1)..Len(regex) : regex[j] = ")"
          /\ regex[i] = ")" => \E j \in 1..(i - 1) : regex[j] = "("

StartsWithA == <<"^", "a">>
InJanuary2024 == <<"^", "2", "0", "2", "4", "-", "0", "1">>

\* Rule sets in the order their fields are written in the rules file.  The first
\* has a field that is not required between two required ones; the second has
\* the required fields in another order; the third has no required field, a
\* float, a rule without a type and a regex applied to a date.
RulesTitleFirst ==
    << Rule("title", "str", TRUE, StartsWithA),
       Rule("rtype_id", "int", FALSE, <<>>),
       Rule("created_at", "date", TRUE, <<>>) >>

RulesDateFirst ==
    << Rule("created_at", "date", TRUE, <<>>),
       Rule("title", "str", FALSE, StartsWithA),
       Rule("rtype_id", "int", TRUE, <<>>) >>

RulesOptional ==
    << Rule("summary", "", FALSE, <<"s">>),
       Rule("rtype_id", "float", FALSE, <<>>),
       Rule("created_at", "date", FALSE, InJanuary2024) >>

\* the well-formed rules documents: entity -> rule set; an entity outside the
\* domain has no rule set
RuleDocs ==
    { JsonObject(("E1" :> JsonObject(RulesTitleFirst)) @@ ("E2" :> JsonObject(RulesOptional))),
      JsonObject(("E1" :> JsonObject(RulesDateFirst)) @@ ("E2" :> JsonObject(<<>>))) }

UnclosedSet == <<"[", "a">>

\* Rules files that are not well formed: a list at the top level; a list where
\* an entity's rule set should be; a text where a field's rule should be; a
\* type named "string"; a regex that does not compile, in the rule set of the
\* second entity.
DocNotMapping == JsonArray
DocRuleSetNotMapping == JsonObject("E1" :> JsonArray)
DocRuleNotMapping == JsonObject("E1" :> JsonObject(<<Rule("title", "str", TRUE, <<>>), NotARule("summary")>>))
DocTypeString == JsonObject("E1" :> JsonObject(<<Rule("title", "string", FALSE, <<>>)>>))
DocBadRegex ==
    JsonObject(("E1" :> JsonObject(RulesTitleFirst))
                  @@ ("E2" :> JsonObject(<<Rule("title", "str", FALSE, UnclosedSet)>>)))

MalformedDocs ==
    {DocNotMapping, DocRuleSetNotMapping, DocRuleNotMapping, DocTypeString, DocBadRegex}

\* a structure check that does not look at the regexes
ValidRulesStructureTypesOnly(doc) ==
    /\ doc.json = "object"
    /\ \A e \in DOMAIN doc.items :
          /\ doc.items[e].json = "object"
          /\ \A k \in 1..Len(doc.items[e].items) :
                LET rule == doc.items[e].items[k]
                IN  /\ rule.json = "object"
                    /\ rule.type = "" \/ rule.type \in VALID_TYPES

\* _validate_rules_structure, lines 28-55: TRUE when no ValueError is raised
ValidRulesStructure(doc) ==
    /\ doc.json = "object"
    /\ \A e \in DOMAIN doc.items :
          /\ doc.items[e].json = "object"
          /\ \A k \in 1..Len(doc.items[e].items) :
                LET rule == doc.items[e].items[k]
                IN  /\ rule.json = "object"
                    /\ rule.type = "" \/ rule.type \in VALID_TYPES
                    /\ rule.regex = <<>> \/ Compiles(rule.regex)

\* entity in self.rules
HasRuleSet(doc, entity) == entity \in DOMAIN doc.items

\* self.rules[entity], its fields in the order of the file
RulesFor(doc, entity) == doc.items[entity].items

\* the entities validate is called for; "E3" has no rule set in any document
ValEntities == Entities \cup {"E3"}

FieldsOf(ruleset) == {ruleset[k].field : k \in 1..Len(ruleset)}

\* ------------------------------------------------------------------ input frames
MaxRows == 2           \* rows in one frame handed to validate

Columns == {"title", "rtype_id", "created_at", "summary"}

Record(t, r, c, s) == [title |-> t, rtype_id |-> r, created_at |-> c, summary |-> s]

Jan5 == StrValue(<<"2", "0", "2", "4", "-", "1", "-", "5">>)
Jan05 == StrValue(<<"2", "0", "2", "4", "-", "0", "1", "-", "0", "5">>)
Feb30 == StrValue(<<"2", "0", "2", "4", "-", "0", "2", "-", "3", "0">>)

\* The records a frame is drawn from: one whose every field converts (blanks
\* around the title, a leading zero, a date without padding); one whose
\* optional number does not convert and whose title ends in a blank; one whose
\* title is missing and whose number does not convert; one whose number does
\* not convert and whose date is not a day of the calendar; one whose title
\* fails the regex; one whose optional fields are missing.  The summaries
\* "s", "ts" and "st" have the letter of the summary regex at the start, only
\* later, and followed by another character.
RecOk == Record(StrValue(<<" ", "a", "b">>), StrValue(<<"0", "4", "2">>), Jan5, StrValue(<<"s">>))
RecBadNumber == Record(StrValue(<<"a", "b", " ">>), StrValue(<<"x">>), Jan05, StrValue(<<"s">>))
RecNoTitle == Record(NoneValue, StrValue(<<"x">>), Jan05, StrValue(<<"t", "s">>))
RecBadDate == Record(StrValue(<<"a">>), StrValue(<<"4", ".", "5">>), Feb30, StrValue(<<"s">>))
RecBadTitle == Record(StrValue(<<"b", "a">>), StrValue(<<"7">>), Jan05, StrValue(<<"s", "t">>))
RecNoOptional == Record(StrValue(<<"a">>), NoneValue, Jan05, NoneValue)

RecordUniverse == {RecOk, RecBadNumber, RecNoTitle, RecBadDate, RecBadTitle, RecNoOptional}

\* the column sets of the frames: every column, a frame without the date, a
\* frame without the number, a frame without either, and pd.DataFrame([]),
\* which has no column at all
ColumnSets == {Columns, Columns \ {"created_at"}, Columns \ {"rtype_id"}, {"title", "summary"}, {}}

\* pd.DataFrame(records): the columns are the keys of the records, row i
\* carries index label i - 1
Frame(columns, records) ==
    [columns |-> columns,
     rows |-> [i \in 1..Len(records) |-> [c \in columns |-> records[i][c]]]]

Frames ==
    {Frame(cs, recs) : cs \in ColumnSets \ {{}}, recs \in SeqsUpTo(RecordUniverse, MaxRows)}
        \cup {Frame({}, <<>>)}

\* index labels that count from one
IndexLabelFromOne(i) == i

\* the index label of the row at position i of a frame (RangeIndex)
IndexLabel(i) == i - 1

\* row.get(field, None)
RowGet(row, field) == IF field \in DOMAIN row THEN row[field] ELSE NoneValue

\* ------------------------------------------------------------------ _validate_value
\* the text the regex is matched against (line 93): str(validated_value), for
\* a date its strftime("%Y-%m-%d")
StrOf(value) == value.v

\* pd.isna(value) or value is None (line 70)
IsNa(value) == value.k = "null"

\* a type check that accepts every value as it came
ValidateValueAcceptsAll(value, rule) ==
    [is_valid |-> TRUE, validated_value |-> value, failed |-> "none"]

\* lines 57-97: (is_valid, validated_value) for one value under one rule;
\* failed names the check that rejected the value
ValidateValue(value, rule) ==
    IF IsNa(value)
    THEN [is_valid |-> TRUE, validated_value |-> NoneValue, failed |-> "none"]
    ELSE LET c == Coerce(rule.type, value)
         IN  IF ~c.ok
             THEN [is_valid |-> FALSE, validated_value |-> NoneValue, failed |-> "type"]
             ELSE IF rule.regex # <<>> /\ ~ReMatch(rule.regex, StrOf(c.value))
             THEN [is_valid |-> FALSE, validated_value |-> NoneValue, failed |-> "regex"]
             ELSE [is_valid |-> TRUE, validated_value |-> c.value, failed |-> "none"]

\* ------------------------------------------------------------------ validate, one row
\* a discard test that applies to every field, required or not
MustDiscardAnyField(rule, res) == ~res.is_valid \/ res.validated_value = NoneValue

\* line 160: rule.get("required", False) and (not is_valid or validated_value is None)
MustDiscard(rule, res) ==
    rule.required /\ (~res.is_valid \/ res.validated_value = NoneValue)

\* a field loop that goes on after a required field has failed
FieldLoopNoBreak(row, ruleset) ==
    LET F[k \in 0..Len(ruleset)] ==
          IF k = 0
          THEN [new_row |-> <<>>, discard_row |-> FALSE, reason |-> "",
                invalid |-> {}, evaluated |-> {}]
          ELSE LET rule == ruleset[k]
                   res == ValidateValue(RowGet(row, rule.field), rule)
                   seen == [F[k - 1] EXCEPT
                              !.evaluated = @ \cup {rule.field},
                              !.invalid = IF res.is_valid THEN @ ELSE @ \cup {rule.field}]
               IN  IF MustDiscard(rule, res)
                   THEN [seen EXCEPT !.discard_row = TRUE,
                                     !.reason = IF F[k - 1].discard_row THEN @ ELSE rule.field]
                   ELSE [seen EXCEPT !.new_row = @ @@ (rule.field :> res.validated_value)]
    IN  F[Len(ruleset)]

\* Lines 147-167, the loop over the fields of the rule set for one row: new_row,
\* discard_row, the field named in discard_reason, the fields whose counter
\* is incremented and the fields the loop evaluated before it ended or broke
FieldLoop(row, ruleset) ==
    LET F[k \in 0..Len(ruleset)] ==
          IF k = 0
          THEN [new_row |-> <<>>, discard_row |-> FALSE, reason |-> "",
                invalid |-> {}, evaluated |-> {}]
          ELSE IF F[k - 1].discard_row
          THEN F[k - 1]
          ELSE LET rule == ruleset[k]
                   res == ValidateValue(RowGet(row, rule.field), rule)
                   seen == [F[k - 1] EXCEPT
                              !.evaluated = @ \cup {rule.field},
                              !.invalid = IF res.is_valid THEN @ ELSE @ \cup {rule.field}]
               IN  IF MustDiscard(rule, res)
                   THEN [seen EXCEPT !.discard_row = TRUE, !.reason = rule.field]
                   ELSE [seen EXCEPT !.new_row = @ @@ (rule.field :> res.validated_value)]
    IN  F[Len(ruleset)]

\* only the first missing required column is named
MissingRequiredFirstOnly(ruleset, columns) ==
    LET miss == SelectSeq(ruleset, LAMBDA rule : rule.required /\ rule.field \notin columns)
    IN  IF miss = <<>> THEN <<>> ELSE <<miss[1].field>>

\* lines 131-134: the required fields that are no column of the frame, in rule order
MissingRequired(ruleset, columns) ==
    LET miss == SelectSeq(ruleset, LAMBDA rule : rule.required /\ rule.field \notin columns)
    IN  [k \in 1..Len(miss) |-> miss[k].field]

\* line 180: pd.DataFrame(validated_data) if validated_data else pd.DataFrame(columns=df.columns)
CleanDf(validated_data, ruleset, columns) ==
    IF validated_data # <<>>
    THEN [columns |-> FieldsOf(ruleset), rows |-> validated_data]
    ELSE [columns |-> columns, rows |-> <<>>]

\* a report that counts every input row as valid
ReportAllValid(total_input, clean_df, discarded_rows, invalid_by_field) ==
    [total_input_rows |-> total_input,
     total_valid_rows |-> total_input,
     total_dropped_rows |-> Len(discarded_rows),
     discarded_rows |-> discarded_rows,
     invalid_by_field |-> invalid_by_field]

\* lines 183-189
Report(total_input, clean_df, discarded_rows, invalid_by_field) ==
    [total_input_rows |-> total_input,
     total_valid_rows |-> Len(clean_df.rows),
     total_dropped_rows |-> Len(discarded_rows),
     discarded_rows |-> discarded_rows,
     invalid_by_field |-> invalid_by_field]

\* a report for an entity without a rule set that counts no row as valid
TrivialReportNoneValid(df) ==
    [total_input_rows |-> Len(df.rows),
     total_valid_rows |-> 0,
     total_dropped_rows |-> 0,
     discarded_rows |-> <<>>,
     invalid_by_field |-> <<>>]

\* lines 120-126: the report for an entity that has no rule set
TrivialReport(df) ==
    [total_input_rows |-> Len(df.rows),
     total_valid_rows |-> Len(df.rows),
     total_dropped_rows |-> 0,
     discarded_rows |-> <<>>,
     invalid_by_field |-> <<>>]

\* ------------------------------------------------------------------ state
VARIABLES
    regs,      \* committed rows of table regulations
    assoc,     \* committed rows of table regulations_component, in insertion order
    nextId,    \* next value of the identifier sequence of regulations
    txn,       \* per writer: rows written in its open transaction, not yet committed
    pc,        \* per writer: where its call of insert_new_records stands
    loc,       \* per writer: the inputs and local variables of its call
    hist,      \* per writer: what the call found at entry and what the store did to it
    runs,      \* calls started so far
    faulted,   \* some store operation has failed since the start
    base,      \* what the store held before any call: association rows, highest identifier
    rules,     \* the rules document the validator was constructed from (self.rules)
    vpc,       \* where the call of validate stands
    vloc,      \* the inputs and local variables of the call of validate
    lpc,       \* where the invocation of lambda_handler stands
    conns      \* the store connections that are open, named by the function that opened them

storeVars == <<regs, assoc, nextId, txn, pc, loc, hist, runs, faulted, base>>

valVars == <<rules, vpc, vloc>>

lamVars == <<lpc, conns>>

vars ==
    <<regs, assoc, nextId, txn, pc, loc, hist, runs, faulted, base, rules, vpc, vloc,
      lpc, conns>>

NoLoc ==
    [df |-> <<>>, entity |-> "E1", db_df |-> {}, entity_df |-> <<>>,
     not_existing |-> <<>>, new_records |-> <<>>, duplicates_found |-> 0,
     internal_duplicates |-> 0, total_rows_processed |-> 0, new_ids |-> <<>>,
     count |-> 0, message |-> "none"]

\* regs0, assoc0: the tables at entry; mine: the identifiers the store gave to the
\* rows this call committed; fault: the store operation that failed in this call;
\* again: the call repeats the previous call's batch and entity; before: the
\* store operation that failed in that previous call; between: the identifiers
\* of the rows of this call's entity that another writer committed after this
\* call's insert returned and before its read-back; ops: the store operations
\* the call has issued so far; cause: what the error of a failed bulk_insert
\* names
NoHist ==
    [regs0 |-> {}, assoc0 |-> <<>>, mine |-> {}, fault |-> "none",
     again |-> FALSE, before |-> "none", between |-> {}, ops |-> {},
     cause |-> "none"]

\* the locals of a call of validate before it has started; kept and evaluated
\* record which input rows were appended to validated_data and which fields of
\* which rows the field loop evaluated
NoValLoc ==
    [df |-> Frame({}, <<>>), entity |-> "E1", missing_required |-> <<>>,
     validated_data |-> <<>>, discarded_rows |-> <<>>, invalid_by_field |-> <<>>,
     total_input |-> 0, pos |-> 0, kept |-> <<>>, evaluated |-> {},
     clean_df |-> Frame({}, <<>>), report |-> TrivialReport(Frame({}, <<>>))]

\* no validator has been constructed
NoRules == JsonObject(<<>>)

Init ==
    /\ \E s \in InitStores :
          /\ regs = s.regs
          /\ assoc = s.assoc
          /\ nextId = MaxOf({r.id : r \in s.regs}) + 1
          /\ base = [assoc |-> Len(s.assoc), id |-> MaxOf({r.id : r \in s.regs})]
    /\ txn = [p \in Procs |-> <<>>]
    /\ pc = [p \in Procs |-> "idle"]
    /\ loc = [p \in Procs |-> NoLoc]
    /\ hist = [p \in Procs |-> NoHist]
    /\ runs = 0
    /\ faulted = FALSE
    /\ rules = NoRules
    /\ vpc = "new"
    /\ vloc = NoValLoc
    /\ lpc = "idle"
    /\ conns = {}

\* ------------------------------------------------------------------ insert_new_records
\* an emptiness test that never finds a frame empty
EmptyNever(frame) == FALSE

\* DataFrame.empty (lines 47 and 113)
Empty(frame) == frame = <<>>

\* Lines 27-123: the query of the existing records and the reconciliation of
\* the batch against them, up to the frame handed to the insert.
Reconcile(p, df, entity, again) ==
    /\ runs < MaxRuns
    /\ runs' = runs + 1
    /\ LET h0 == [NoHist EXCEPT !.regs0 = regs, !.assoc0 = assoc, !.again = again,
                                !.before = IF again THEN hist[p].fault ELSE "none",
                                !.ops = {"query"}]
           l0 == [NoLoc EXCEPT !.df = df, !.entity = entity]
       IN  \/ \* execute_query raises: outer except, rollback, (0, error)
              /\ loc' = [loc EXCEPT ![p] = [l0 EXCEPT !.message = "error"]]
              /\ hist' = [hist EXCEPT ![p] = [h0 EXCEPT !.fault = "query"]]
              /\ pc' = [pc EXCEPT ![p] = "done"]
              /\ faulted' = TRUE
           \/ LET db_df == DbDf(SelectExisting(regs, entity))
                  entity_df == EntityDf(df, entity)
                  not_existing == NotExisting(entity_df, db_df)
                  duplicates_found == DuplicatesFound(entity_df, db_df)
                  new_records == DropDuplicates(not_existing)
                  l1 == [l0 EXCEPT !.db_df = db_df, !.entity_df = entity_df]
                  l2 == [l1 EXCEPT !.not_existing = not_existing,
                                   !.new_records = new_records,
                                   !.duplicates_found = duplicates_found,
                                   !.internal_duplicates =
                                       InternalDuplicates(entity_df, duplicates_found, new_records)]
              IN  /\ hist' = [hist EXCEPT ![p] = h0]
                  /\ faulted' = faulted
                  /\ IF Empty(entity_df)
                     THEN /\ loc' = [loc EXCEPT ![p] = [l1 EXCEPT !.message = "no_records"]]
                          /\ pc' = [pc EXCEPT ![p] = "done"]
                     ELSE IF Empty(new_records)
                     THEN /\ loc' = [loc EXCEPT ![p] = [l2 EXCEPT !.message = "no_new"]]
                          /\ pc' = [pc EXCEPT ![p] = "done"]
                     ELSE /\ loc' = [loc EXCEPT ![p] = l2]
                          /\ pc' = [pc EXCEPT ![p] = "insert"]
    /\ UNCHANGED <<regs, assoc, nextId, txn, base, valVars, lamVars>>

\* every failure of the insert reported as a processing error
InsertMessageGeneric(cause) == "error"

\* lines 139-143: "duplicate" or "unique" in the text of the error gives the
\* softer message, any other error is raised again and reported by the outer
\* except (lines 192-199)
InsertMessage(cause) == IF cause = "unique" THEN "dup_skipped" ELSE "error"

\* Lines 136-143 and 192-199: what the call returns when bulk_insert raised.
\* A cause naming a uniqueness conflict gives the softer message, any other
\* cause is re-raised to the outer except; both return count 0.
InsertError(p, cause) ==
    /\ loc' = [loc EXCEPT ![p].count = 0, ![p].message = InsertMessage(cause)]
    /\ hist' = [hist EXCEPT ![p].fault = "insert", ![p].ops = @ \cup {"insert"},
                            ![p].cause = cause]
    /\ txn' = [txn EXCEPT ![p] = <<>>]
    /\ pc' = [pc EXCEPT ![p] = "done"]
    /\ faulted' = TRUE

\* db.py lines 43-50 (bulk_insert up to cursor.executemany) for table regulations
ExecuteMany(p) ==
    /\ pc[p] = "insert"
    /\ LET rows == Assign(loc[p].new_records, nextId)
       IN  \/ /\ txn' = [txn EXCEPT ![p] = rows]
              /\ nextId' = nextId + Len(rows)
              /\ pc' = [pc EXCEPT ![p] = "commit"]
              /\ hist' = [hist EXCEPT ![p].ops = @ \cup {"insert"}]
              /\ UNCHANGED <<regs, loc, faulted>>
           \/ \* the statement fails at row j + 1: except branch, rollback, raise
              \E j \in 0..(Len(rows) - 1), cause \in {"unique", "other"} :
                 /\ nextId' = nextId + j
                 /\ regs' = RolledBack(regs, SubSeq(rows, 1, j))
                 /\ InsertError(p, cause)
    /\ UNCHANGED <<assoc, runs, base, valVars, lamVars>>

\* db.py lines 51-55 (connection.commit and return len(df)), escritura.py lines 129-134
Commit(p) ==
    /\ pc[p] = "commit"
    /\ \/ /\ regs' = Committed(regs, txn[p])
          /\ txn' = [txn EXCEPT ![p] = <<>>]
          /\ LET total_rows_processed == Len(loc[p].new_records)
             IN  IF total_rows_processed = 0
                 THEN /\ loc' = [loc EXCEPT ![p].count = 0, ![p].message = "not_inserted"]
                      /\ pc' = [pc EXCEPT ![p] = "done"]
                 ELSE /\ loc' = [loc EXCEPT ![p].total_rows_processed = total_rows_processed]
                      /\ pc' = [pc EXCEPT ![p] = "readback"]
          /\ LET ids == {r.id : r \in Range(txn[p])}
             IN  hist' = [q \in Procs |->
                            IF q = p THEN [hist[q] EXCEPT !.mine = ids]
                            ELSE IF pc[q] = "readback" /\ loc[q].entity = loc[p].entity
                                 THEN [hist[q] EXCEPT !.between = @ \cup ids]
                                 ELSE hist[q]]
          /\ faulted' = faulted
       \/ \E cause \in {"unique", "other"} :
             /\ regs' = RolledBack(regs, txn[p])
             /\ InsertError(p, cause)
    /\ UNCHANGED <<assoc, nextId, runs, base, valVars, lamVars>>

\* Lines 145-160: the identifiers of the inserted rows, read back by recency
ReadIds(p) ==
    /\ pc[p] = "readback"
    /\ \/ LET new_ids == ReadBack(regs, loc[p].entity, loc[p].total_rows_processed)
          IN  /\ loc' = [loc EXCEPT ![p].new_ids = new_ids]
              /\ pc' = [pc EXCEPT ![p] = "components"]
              /\ hist' = [hist EXCEPT ![p].ops = @ \cup {"readback"}]
              /\ faulted' = faulted
       \/ \* execute_query raises: outer except, rollback, (0, error)
          /\ loc' = [loc EXCEPT ![p].count = 0, ![p].message = "error"]
          /\ hist' = [hist EXCEPT ![p].fault = "readback", ![p].ops = @ \cup {"readback"}]
          /\ pc' = [pc EXCEPT ![p] = "done"]
          /\ faulted' = TRUE
    /\ UNCHANGED <<regs, assoc, nextId, txn, runs, base, valVars, lamVars>>

\* an association failure that reaches the outer except: (0, error)
ComponentsResultRaises(total_rows_processed, failed) ==
    IF failed
    THEN [count |-> 0, message |-> "error"]
    ELSE [count |-> total_rows_processed, message |-> "ok"]

\* Lines 168-190: what the call returns once the primary insert has committed;
\* a failure of the association insert only changes the message
ComponentsResult(total_rows_processed, failed) ==
    [count |-> total_rows_processed,
     message |-> IF failed THEN "ok_component_error" ELSE "ok"]

\* Lines 164-190 with insert_regulations_component (lines 3-18): the bulk insert
\* of one (id, 7) row per identifier read back, then the final return.
Components(p) ==
    /\ pc[p] = "components"
    /\ \/ /\ assoc' = IF loc[p].new_ids = <<>> THEN assoc ELSE assoc \o IdRows(loc[p].new_ids)
          /\ LET res == ComponentsResult(loc[p].total_rows_processed, FALSE)
             IN  loc' = [loc EXCEPT ![p].count = res.count, ![p].message = res.message]
          /\ hist' = [hist EXCEPT ![p].ops =
                                    IF loc[p].new_ids = <<>> THEN @ ELSE @ \cup {"components"}]
          /\ faulted' = faulted
       \/ \* bulk_insert raises: caught in insert_regulations_component, only reported
          /\ loc[p].new_ids # <<>>
          /\ assoc' = assoc
          /\ LET res == ComponentsResult(loc[p].total_rows_processed, TRUE)
             IN  loc' = [loc EXCEPT ![p].count = res.count, ![p].message = res.message]
          /\ hist' = [hist EXCEPT ![p].fault = "components", ![p].ops = @ \cup {"components"}]
          /\ faulted' = TRUE
    /\ pc' = [pc EXCEPT ![p] = "done"]
    /\ UNCHANGED <<regs, nextId, txn, runs, base, valVars, lamVars>>

\* the caller takes the returned (count, message); the writer is free again
Return(p) ==
    /\ pc[p] = "done"
    /\ pc' = [pc EXCEPT ![p] = "idle"]
    /\ loc' = [loc EXCEPT ![p] = NoLoc]
    /\ hist' = [hist EXCEPT ![p] = NoHist]
    /\ UNCHANGED <<regs, assoc, nextId, txn, runs, faulted, base, valVars, lamVars>>

Step(p) == ExecuteMany(p) \/ Commit(p) \/ ReadIds(p) \/ Components(p)

\* ------------------------------------------------------------------ specifications
Writer == 1

\* single writer: the calls of insert_new_records run one after the other
Call ==
    /\ pc[Writer] = "idle"
    /\ \E df \in Batches, entity \in Entities : Reconcile(Writer, df, entity, FALSE)

\* the pipeline is run again on the batch of the call that just returned
CallAgain ==
    /\ pc[Writer] = "done"
    /\ Reconcile(Writer, loc[Writer].df, loc[Writer].entity, TRUE)

Next == Call \/ CallAgain \/ Return(Writer) \/ Step(Writer)

Spec == Init /\ [][Next]_vars

\* two pipeline instances, one call each, interleaved at every store operation
ConcBatches == {WithIndex(rows) : rows \in SeqsUpTo(RowUniverse, MaxConcBatch)}

ConcCall(p) ==
    /\ pc[p] = "idle"
    /\ \E df \in ConcBatches, entity \in Entities : Reconcile(p, df, entity, FALSE)

NextConc == \E p \in Procs : ConcCall(p) \/ Step(p)

SpecConc == Init /\ [][NextConc]_vars

\* ------------------------------------------------------------------ lambda_handler
\* legacy/lambda.py line 18: the one entity the scraper produces records for
ENTITY_VALUE == "E1"

\* lines 288-300 and 666: the frames built from scraped records, which all
\* carry ENTITY_VALUE; line 653 has returned before for an empty list
ScrapedFrames ==
    {df \in Batches : df # <<>> /\ \A i \in 1..Len(df) : df[i].entity = ENTITY_VALUE}

\* Lines 613-622: a new invocation; force_scrape skips check_for_new_content
LambdaStart ==
    /\ lpc \in {"idle", "returned"}
    /\ runs < MaxRuns
    /\ \E force_scrape \in BOOLEAN :
          lpc' = IF force_scrape THEN "scrape" ELSE "check_connect"
    /\ pc' = [pc EXCEPT ![Writer] = "idle"]
    /\ loc' = [loc EXCEPT ![Writer] = NoLoc]
    /\ hist' = [hist EXCEPT ![Writer] = NoHist]
    /\ UNCHANGED <<regs, assoc, nextId, txn, runs, faulted, base, valVars, conns>>

\* check_for_new_content, lines 541-544: the connection for the check; without
\* it the function returns True and the handler goes on to scrape
CheckConnect ==
    /\ lpc = "check_connect"
    /\ \/ /\ conns' = conns \cup {"check"}
          /\ lpc' = "check_query"
       \/ /\ conns' = conns
          /\ lpc' = "scrape"
    /\ UNCHANGED <<storeVars, valVars>>

\* check_for_new_content, lines 547-567 and 604-606: the query of the latest
\* date, then close(). When the query raises, the except of line 604 returns
\* True and close() is not called: the connection is released only if the
\* interpreter finalises the abandoned DatabaseManager.
CheckQuery ==
    /\ lpc = "check_query"
    /\ \/ /\ conns' = conns \ {"check"}
          /\ lpc' = "check_pages"
       \/ /\ conns' \in {conns, conns \ {"check"}}
          /\ lpc' = "scrape"
    /\ UNCHANGED <<storeVars, valVars>>

\* check_for_new_content, lines 572-602, and lambda_handler, lines 623-633:
\* newer content on the first pages, or none and the 200 response
CheckPages ==
    /\ lpc = "check_pages"
    /\ \E has_new_content \in BOOLEAN :
          lpc' = IF has_new_content THEN "scrape" ELSE "returned"
    /\ UNCHANGED <<storeVars, valVars, conns>>

\* lambda_handler, lines 642-666 and 702-711: scrape_page raises (500), no
\* valid record was found (200), or the records make a frame
Scrape ==
    /\ lpc = "scrape"
    /\ \E outcome \in {"raised", "empty", "data"} :
          lpc' = IF outcome = "data" THEN "connect" ELSE "returned"
    /\ UNCHANGED <<storeVars, valVars, conns>>

\* lambda_handler, lines 670-678: the connection for the insert, or the 500
\* response
Connect ==
    /\ lpc = "connect"
    /\ \/ /\ conns' = conns \cup {"main"}
          /\ lpc' = "insert"
       \/ /\ conns' = conns
          /\ lpc' = "returned"
    /\ UNCHANGED <<storeVars, valVars>>

\* lambda_handler, line 682: the call of insert_new_records (legacy/lambda.py
\* lines 351-530, the same statements as escritura.py lines 20-199)
LambdaInsert ==
    /\ lpc = "insert"
    /\ pc[Writer] = "idle"
    /\ \E df \in ScrapedFrames : Reconcile(Writer, df, ENTITY_VALUE, FALSE)

\* lambda_handler, lines 684-700: the response is built from what the insert
\* returned and the finally clause closes the connection
LambdaReturn ==
    /\ lpc = "insert"
    /\ pc[Writer] = "done"
    /\ conns' = conns \ {"main"}
    /\ lpc' = "returned"
    /\ UNCHANGED <<storeVars, valVars>>

NextLambda ==
    \/ LambdaStart
    \/ CheckConnect
    \/ CheckQuery
    \/ CheckPages
    \/ Scrape
    \/ Connect
    \/ LambdaInsert
    \/ (lpc = "insert" /\ Step(Writer))
    \/ LambdaReturn

SpecLambda == Init /\ [][NextLambda]_vars

\* ------------------------------------------------------------------ validate
\* the store and the writers as they are when only the validator runs
InitValidate ==
    /\ regs = {}
    /\ assoc = <<>>
    /\ nextId = 1
    /\ base = [assoc |-> 0, id |-> 0]
    /\ txn = [p \in Procs |-> <<>>]
    /\ pc = [p \in Procs |-> "idle"]
    /\ loc = [p \in Procs |-> NoLoc]
    /\ hist = [p \in Procs |-> NoHist]
    /\ runs = 0
    /\ faulted = FALSE
    /\ rules = NoRules
    /\ vpc = "new"
    /\ vloc = NoValLoc
    /\ lpc = "idle"
    /\ conns = {}

\* DataValidator.__init__, lines 23-26: the rules file is loaded into
\* self.rules and its structure checked; a ValueError leaves no validator
Construct(doc) ==
    /\ vpc = "new"
    /\ rules' = doc
    /\ vpc' = IF ValidRulesStructure(doc) THEN "idle" ELSE "rejected"
    /\ UNCHANGED <<lamVars, storeVars, vloc>>

\* Lines 117-143: the entity without a rule set, the required columns the frame
\* lacks, the start of the tracking.
ValidateStart(df, entity) ==
    /\ vpc = "idle"
    /\ LET l0 == [NoValLoc EXCEPT !.df = df, !.entity = entity]
       IN  IF ~HasRuleSet(rules, entity)
           THEN /\ vloc' = [l0 EXCEPT !.clean_df = df, !.report = TrivialReport(df)]
                /\ vpc' = "returned"
           ELSE LET missing_required == MissingRequired(RulesFor(rules, entity), df.columns)
                IN  IF missing_required # <<>>
                    THEN /\ vloc' = [l0 EXCEPT !.missing_required = missing_required]
                         /\ vpc' = "raised"
                    ELSE /\ vloc' = [l0 EXCEPT
                                       !.invalid_by_field = [f \in FieldsOf(RulesFor(rules, entity)) |-> 0],
                                       !.total_input = Len(df.rows),
                                       !.pos = 1]
                         /\ vpc' = "rows"
    /\ UNCHANGED <<lamVars, storeVars, rules>>

\* Lines 146-177: one turn of the loop over the rows of the frame.
ValidateRow ==
    /\ vpc = "rows"
    /\ vloc.pos <= Len(vloc.df.rows)
    /\ LET i == vloc.pos
           row == vloc.df.rows[i]
           r == FieldLoop(row, RulesFor(rules, vloc.entity))
           l1 == [vloc EXCEPT
                    !.invalid_by_field = [f \in DOMAIN @ |-> IF f \in r.invalid THEN @[f] + 1 ELSE @[f]],
                    !.evaluated = @ \cup {<<i, f>> : f \in r.evaluated},
                    !.pos = i + 1]
       IN  IF r.discard_row
           THEN vloc' = [l1 EXCEPT !.discarded_rows =
                            Append(@, [original_index |-> IndexLabel(i),
                                       reason |-> r.reason,
                                       row_data |-> row])]
           ELSE vloc' = [l1 EXCEPT !.validated_data = Append(@, r.new_row),
                                   !.kept = Append(@, i)]
    /\ UNCHANGED <<lamVars, storeVars, rules, vpc>>

\* Lines 179-199: the cleaned frame and the report.
ValidateFinish ==
    /\ vpc = "rows"
    /\ vloc.pos > Len(vloc.df.rows)
    /\ LET clean_df == CleanDf(vloc.validated_data, RulesFor(rules, vloc.entity), vloc.df.columns)
       IN  vloc' = [vloc EXCEPT
                      !.clean_df = clean_df,
                      !.report = Report(vloc.total_input, clean_df, vloc.discarded_rows,
                                        vloc.invalid_by_field)]
    /\ vpc' = "returned"
    /\ UNCHANGED <<lamVars, storeVars, rules>>

\* run_validation, line 253, for the rules file at rules_path
LoadRules == \E doc \in RuleDocs \cup MalformedDocs : Construct(doc)

\* run_validation, line 254, on a frame built by pd.DataFrame(records)
RunValidation == \E df \in Frames, entity \in ValEntities : ValidateStart(df, entity)

NextValidate == LoadRules \/ RunValidation \/ ValidateRow \/ ValidateFinish

SpecValidate == InitValidate /\ [][NextValidate]_vars

\* ------------------------------------------------------------------ claims
\* the identity key of a record: trimmed title, stringified created_at,
\* external_link with a missing value as the empty text
IdentityKey(r) == Subset3(Normalize(r))

\* the records inserted since the start
EngineRows == {r \in regs : r.id > base.id}

\* the association rows a call appended to the table
AddedAssoc(p) == {assoc[i] : i \in (Len(hist[p].assoc0) + 1)..Len(assoc)}

\* C1: under a single writer, started on a store in which no two records of an
\* entity share an identity key, the store never holds two records of one
\* entity with the same identity key.
C1_NoTwoRecordsShareKey ==
    \A r1 \in regs, r2 \in regs :
        (r1.entity = r2.entity /\ IdentityKey(r1) = IdentityKey(r2)) => r1 = r2

\* a second call has inserted next to the rows an earlier call inserted
C1_Witness ==
    /\ pc[Writer] = "done"
    /\ loc[Writer].count >= 1
    /\ \E r \in hist[Writer].regs0 : r.id > base.id /\ r.entity = loc[Writer].entity

\* C2: when a call repeats the batch and entity of the call that returned just
\* before it (whose query and insert did not fail, and its own query does not
\* fail), it returns count 0, classifies every record of the entity's batch as
\* a duplicate of an existing record, and leaves both tables as it found them.
C2_SecondRunInsertsNothing ==
    ( /\ pc[Writer] = "done"
      /\ hist[Writer].again
      /\ hist[Writer].before \notin {"query", "insert"}
      /\ hist[Writer].fault # "query" )
    => /\ loc[Writer].count = 0
       /\ loc[Writer].message \in {"no_new", "no_records"}
       /\ loc[Writer].duplicates_found = Len(loc[Writer].entity_df)
       /\ loc[Writer].not_existing = <<>>
       /\ regs = hist[Writer].regs0
       /\ assoc = hist[Writer].assoc0

\* the repeated call follows a call that inserted two rows of the batch
C2_Witness ==
    /\ pc[Writer] = "done"
    /\ hist[Writer].again
    /\ hist[Writer].before = "none"
    /\ hist[Writer].fault = "none"
    /\ Len(loc[Writer].entity_df) = 2
    /\ Cardinality(EngineRows) = 2

\* C3: under a single writer, the identifiers read back after an insert of k
\* rows are exactly the k identifiers the store assigned to those rows, and
\* every association row the call creates refers to one of them.
C3_ReadBackIsOwnIds ==
    (pc[Writer] \in {"components", "done"} /\ loc[Writer].new_ids # <<>>)
    => /\ Range(loc[Writer].new_ids) = hist[Writer].mine
       /\ Len(loc[Writer].new_ids) = loc[Writer].total_rows_processed
       /\ Cardinality(hist[Writer].mine) = loc[Writer].total_rows_processed
       /\ \A a \in AddedAssoc(Writer) : a.regulations_id \in hist[Writer].mine

\* two rows inserted next to older rows of the same entity, and linked
C3_Witness ==
    /\ pc[Writer] = "done"
    /\ loc[Writer].message = "ok"
    /\ loc[Writer].total_rows_processed = 2
    /\ \E r \in hist[Writer].regs0 : r.entity = loc[Writer].entity
    /\ Cardinality(AddedAssoc(Writer)) = 2

\* the read-back of writer p holds an identifier of a row it did not insert
HasForeign(p) == ~(Range(loc[p].new_ids) \subseteq hist[p].mine)

\* C4 as stated: with two concurrent writers of one entity, whenever the other
\* writer commits an insert between this writer's insert and its read-back,
\* the read-back returns an identifier this writer did not insert.
C4_AnyCommitBetweenIsReadBack ==
    \A p \in Procs :
        ( /\ pc[p] \in {"components", "done"}
          /\ loc[p].new_ids # <<>>
          /\ hist[p].between # {} )
        => HasForeign(p)

\* C4 amended: when the rows the other writer commits between this writer's
\* insert and its read-back carry an identifier higher than one of this
\* writer's own, the read-back returns an identifier this writer did not
\* insert and misses one it did insert; the association insert, when it
\* succeeds, then links a record of the other writer.
C4_HigherIdCommitBetweenIsReadBack ==
    \A p \in Procs :
        ( /\ pc[p] \in {"components", "done"}
          /\ loc[p].new_ids # <<>>
          /\ \E f \in hist[p].between : \E m \in hist[p].mine : f > m )
        => /\ HasForeign(p)
           /\ \E m \in hist[p].mine : m \notin Range(loc[p].new_ids)
           /\ (pc[p] = "done" /\ loc[p].message = "ok")
              => \E a \in Range(assoc) :
                    /\ a.regulations_id \in Range(loc[p].new_ids) \ hist[p].mine
                    /\ a.components_id = COMPONENTS_ID

\* the other writer's rows, committed in between, were linked by this writer
C4_Witness ==
    \E p \in Procs :
        /\ pc[p] = "done"
        /\ loc[p].message = "ok"
        /\ \E f \in hist[p].between : \E m \in hist[p].mine : f > m
        /\ HasForeign(p)

\* C5: when the bulk insert of the new records fails (in the statement or in
\* the commit, whatever the cause), nothing of the batch is persisted: the
\* regulations table is as it was at entry, no row stays pending, and the call
\* returns count 0 with a message that reports the failure.
C5_FailedInsertPersistsNothing ==
    (pc[Writer] = "done" /\ hist[Writer].fault = "insert")
    => /\ regs = hist[Writer].regs0
       /\ assoc = hist[Writer].assoc0
       /\ txn[Writer] = <<>>
       /\ loc[Writer].count = 0
       /\ loc[Writer].message \in {"error", "dup_skipped"}

\* the insert of a two-row frame failed
C5_Witness ==
    /\ pc[Writer] = "done"
    /\ hist[Writer].fault = "insert"
    /\ Len(loc[Writer].new_records) = 2
    /\ loc[Writer].message = "error"

\* C6: when the association insert fails after the primary insert committed,
\* the inserted records stay persisted, the call returns the number of
\* inserted records, and the failure shows only in the message.
C6_AssociationFailureKeepsInsert ==
    (pc[Writer] = "done" /\ hist[Writer].fault = "components")
    => /\ loc[Writer].count = Len(loc[Writer].new_records)
       /\ loc[Writer].count = Cardinality(hist[Writer].mine)
       /\ loc[Writer].count >= 1
       /\ \A id \in hist[Writer].mine : \E r \in regs : r.id = id
       /\ hist[Writer].regs0 \subseteq regs
       /\ assoc = hist[Writer].assoc0
       /\ loc[Writer].message = "ok_component_error"

\* two rows committed, their association insert failed
C6_Witness ==
    /\ pc[Writer] = "done"
    /\ hist[Writer].fault = "components"
    /\ loc[Writer].count = 2

\* positions of the association rows appended since the start
EngineAssoc == (base.assoc + 1)..Len(assoc)

\* C7: between the calls of a single writer, as long as no store operation has
\* failed, every record the engine inserted has exactly one association row;
\* and every association row the engine created carries component 7.
C7_OneAssociationPerInsert ==
    /\ (~faulted /\ pc[Writer] \in {"idle", "done"})
       => \A r \in EngineRows :
             Cardinality({i \in EngineAssoc : assoc[i].regulations_id = r.id}) = 1
    /\ \A i \in EngineAssoc : assoc[i].components_id = COMPONENTS_ID

\* two fault-free calls have inserted and linked rows
C7_Witness ==
    /\ ~faulted
    /\ pc[Writer] = "done"
    /\ loc[Writer].count >= 1
    /\ \E r \in hist[Writer].regs0 : r.id > base.id
    /\ Cardinality(EngineRows) >= 2

\* rows of the entity's batch that the call classified as already persisted
Flagged(p) ==
    {i \in 1..Len(loc[p].entity_df) :
        loc[p].entity_df[i].idx \notin {r.idx : r \in Range(loc[p].not_existing)}}

\* rows of the entity's batch whose three normalized fields equal an existing record's
Matching(p) ==
    {i \in 1..Len(loc[p].entity_df) :
        \E x \in loc[p].db_df : Subset3(x) = Subset3(loc[p].entity_df[i])}

\* C8: when the store holds a record of the entity, a batch record is
\* classified as a duplicate of an existing record if and only if some
\* existing record has the same normalized title, created_at and external_link.
C8_DuplicateIffFieldsEqual ==
    (loc[Writer].entity_df # <<>> /\ loc[Writer].db_df # {})
    => Flagged(Writer) = Matching(Writer)

\* C9: the frame handed to the insert holds, of the rows not classified as
\* duplicates of existing records, exactly the first occurrence of each
\* identity key, in input order; the rows written are those rows, in order.
C9_FirstOccurrenceKept ==
    LET ne == loc[Writer].not_existing
        nr == loc[Writer].new_records
    IN  loc[Writer].entity_df # <<>>
        => /\ \A i \in 1..Len(nr) : \E j \in 1..Len(ne) : nr[i] = ne[j]
           /\ \A i \in 1..Len(nr), j \in 1..Len(nr) :
                 i < j => /\ nr[i].idx < nr[j].idx
                          /\ Subset3(nr[i]) # Subset3(nr[j])
           /\ \A j \in 1..Len(ne) :
                 \E i \in 1..Len(nr) : /\ Subset3(nr[i]) = Subset3(ne[j])
                                       /\ nr[i].idx <= ne[j].idx
           /\ pc[Writer] = "commit"
              => /\ Len(txn[Writer]) = Len(nr)
                 /\ \A i \in 1..Len(nr) : Subset3(txn[Writer][i]) = Subset3(nr[i])

\* next to existing records, the second of two new rows repeats the first
C9_Witness ==
    /\ pc[Writer] = "commit"
    /\ loc[Writer].db_df # {}
    /\ Len(loc[Writer].not_existing) = 2
    /\ Len(loc[Writer].new_records) = 1
    /\ loc[Writer].new_records[1].idx = 1

\* C10: the counts partition the entity's batch: duplicates against existing is
\* the number of rows whose identity key an existing record has, duplicates
\* within the batch is the number of remaining rows that repeat an earlier
\* remaining row's key, both plus the new records give the batch size, and
\* with no existing record the first count is 0.
C10_CountsPartitionBatch ==
    LET e == loc[Writer].entity_df
        rest == (1..Len(e)) \ Matching(Writer)
        repeats == {i \in rest : \E j \in rest : j < i /\ Subset3(e[j]) = Subset3(e[i])}
    IN  e # <<>>
        => /\ loc[Writer].duplicates_found = Cardinality(Matching(Writer))
           /\ loc[Writer].internal_duplicates = Cardinality(repeats)
           /\ loc[Writer].duplicates_found + loc[Writer].internal_duplicates
                 + Len(loc[Writer].new_records) = Len(e)
           /\ (loc[Writer].db_df = {} => loc[Writer].duplicates_found = 0)

\* ------------------------------------------------------------------ claims on validate
Returned == vpc = "returned"
\* validate has been called
Called == vpc \in {"rows", "returned", "raised"}
HasRules == HasRuleSet(rules, vloc.entity)
RuleSet == RulesFor(rules, vloc.entity)
InputRows == 1..Len(vloc.df.rows)

\* the value input row i holds for a field, None when the frame lacks the column
InputValue(i, field) == RowGet(vloc.df.rows[i], field)

\* the value of input row i for the field of rule k fails the rule's type
\* coercion or its regex check
Fails(i, k) == ~ValidateValue(InputValue(i, RuleSet[k].field), RuleSet[k]).is_valid

\* a required field of input row i is null or missing, or fails its checks
RequiredFails(i) ==
    \E k \in 1..Len(RuleSet) :
        RuleSet[k].required /\ (IsNa(InputValue(i, RuleSet[k].field)) \/ Fails(i, k))

\* input row i is listed in discarded_rows / was appended to the validated rows
Discarded(i) ==
    \E d \in 1..Len(vloc.report.discarded_rows) :
        vloc.report.discarded_rows[d].original_index + 1 = i
Kept(i) == \E j \in 1..Len(vloc.kept) : vloc.kept[j] = i

\* C11: for every batch and every entity the returned report satisfies
\* total_input_rows = total_valid_rows + total_dropped_rows, where
\* total_input_rows is the number of input rows, total_dropped_rows the number
\* of entries of discarded_rows and total_valid_rows the number of rows of the
\* returned batch.
C11_ReportArithmetic ==
    Returned =>
        /\ vloc.report.total_input_rows =
              vloc.report.total_valid_rows + vloc.report.total_dropped_rows
        /\ vloc.report.total_input_rows = Len(vloc.df.rows)
        /\ vloc.report.total_dropped_rows = Len(vloc.report.discarded_rows)
        /\ vloc.report.total_valid_rows = Len(vloc.clean_df.rows)

C11_Witness ==
    /\ Returned /\ HasRules
    /\ vloc.report.total_valid_rows >= 1
    /\ vloc.report.total_dropped_rows >= 1

\* C12: validate discards a row if and only if at least one field marked
\* required in the entity's rules is null or missing in that row or fails its
\* type coercion or its regex check; a row whose failures are all on fields
\* that are not required is kept.
C12_DiscardIffRequiredFails ==
    (Returned /\ HasRules) =>
        \A i \in InputRows :
            /\ Discarded(i) <=> RequiredFails(i)
            /\ Kept(i) <=> ~RequiredFails(i)

C12_Witness ==
    /\ Returned /\ HasRules
    /\ \E i \in InputRows : Discarded(i)
    /\ \E i \in InputRows :
          /\ Kept(i)
          /\ \E k \in 1..Len(RuleSet) : ~RuleSet[k].required /\ Fails(i, k)

\* C13: for every row kept by validate when the entity has rules, each input
\* field that has no rule for the entity is present in the validated record
\* with its input value unchanged.
C13_UnruledFieldsPassThrough ==
    (Returned /\ HasRules) =>
        \A j \in 1..Len(vloc.kept) :
            \A c \in vloc.df.columns \ FieldsOf(RuleSet) :
                /\ c \in DOMAIN vloc.clean_df.rows[j]
                /\ vloc.clean_df.rows[j][c] = vloc.df.rows[vloc.kept[j]][c]

\* the field loop reaches rule k for input row i: no required field written
\* before it in the rule set is null or fails in that row
Reached(i, k) ==
    \A j \in 1..(k - 1) :
        RuleSet[j].required =>
            ~IsNa(InputValue(i, RuleSet[j].field)) /\ ~Fails(i, j)

\* C14 as stated: for every field f of the entity's rules, invalid_by_field[f]
\* equals the number of input rows whose value for f fails its type coercion
\* or regex check, whether or not the row was dropped, rows dropped because of
\* another field included.
C14_CountsEveryFailingRow ==
    (Returned /\ HasRules) =>
        \A k \in 1..Len(RuleSet) :
            vloc.report.invalid_by_field[RuleSet[k].field] =
                Cardinality({i \in InputRows : Fails(i, k)})

\* C14 amended: invalid_by_field[f] equals the number of input rows in which
\* the field loop reaches f (no required field written before f in the rule
\* set is null or fails in that row) and the value for f fails its type
\* coercion or regex check, whether or not the row was dropped.
C14_CountsEveryEvaluatedFailure ==
    (Returned /\ HasRules) =>
        \A k \in 1..Len(RuleSet) :
            vloc.report.invalid_by_field[RuleSet[k].field] =
                Cardinality({i \in InputRows : Reached(i, k) /\ Fails(i, k)})

\* a dropped row counted for a field other than the one it was dropped for,
\* and a dropped row with a failing field the loop never reached
C14_Witness ==
    /\ Returned /\ HasRules
    /\ \E i \in InputRows, k \in 1..Len(RuleSet) :
          Discarded(i) /\ ~RuleSet[k].required /\ Fails(i, k) /\ Reached(i, k)
    /\ \E i \in InputRows, k \in 1..Len(RuleSet) :
          Discarded(i) /\ Fails(i, k) /\ ~Reached(i, k)

\* the row the current turn of the loop over the rows is looking at
TurnOfRow == vpc = "rows" /\ vpc' = "rows" /\ vloc'.pos = vloc.pos + 1

C16_OrderAndOriginalIndex ==
    (Returned /\ HasRules) =>
        LET out == vloc.clean_df.rows
            disc == vloc.report.discarded_rows
        IN  /\ Len(out) = Len(vloc.kept)
            /\ \A j \in 1..Len(out) :
                  /\ vloc.kept[j] \in InputRows
                  /\ \A f \in FieldsOf(RuleSet) :
                        LET k == CHOOSE x \in 1..Len(RuleSet) : RuleSet[x].field = f
                        IN  out[j][f] =
                               ValidateValue(InputValue(vloc.kept[j], f), RuleSet[k]).validated_value
            /\ \A j1, j2 \in 1..Len(out) : j1 < j2 => vloc.kept[j1] < vloc.kept[j2]
            /\ \A d \in 1..Len(disc) :
                  /\ disc[d].original_index + 1 \in InputRows
                  /\ disc[d].row_data = vloc.df.rows[disc[d].original_index + 1]
            /\ \A d1, d2 \in 1..Len(disc) :
                  d1 < d2 => disc[d1].original_index < disc[d2].original_index
            /\ \A i \in InputRows : Kept(i) # Discarded(i)

\* a row discarded at the second position after a row that was kept: its
\* position among the discarded rows differs from its original index
C16_Witness ==
    /\ Returned /\ HasRules
    /\ Len(vloc.clean_df.rows) >= 1
    /\ Len(vloc.report.discarded_rows) >= 1
    /\ vloc.report.discarded_rows[1].original_index = 1
    /\ vloc.report.discarded_rows[1].row_data # vloc.df.rows[1]

\* the required fields of the rule set that are no column of the frame
RequiredMissing ==
    {RuleSet[k].field : k \in {x \in 1..Len(RuleSet) :
                                  RuleSet[x].required /\ RuleSet[x].field \notin vloc.df.columns}}

\* C17: if the input batch lacks one or more columns that the entity's rules
\* mark required, validate fails before evaluating any row, the error names
\* every missing required column, and no cleaned batch or report is produced.
C17_MissingRequiredColumnsFailFast ==
    (Called /\ HasRules /\ RequiredMissing # {}) =>
        /\ vpc = "raised"
        /\ vloc.evaluated = {}
        /\ vloc.pos = 0
        /\ Range(vloc.missing_required) = RequiredMissing
        /\ vloc.validated_data = <<>>
        /\ vloc.discarded_rows = <<>>
        /\ vloc.clean_df = NoValLoc.clean_df
        /\ vloc.report = NoValLoc.report

C17_Witness ==
    /\ vpc = "raised"
    /\ Len(vloc.missing_required) = 2
    /\ Len(vloc.df.rows) >= 1

\* C18: validating an empty batch (zero rows) for any entity returns an empty
\* validated batch and a report with total_input_rows, total_valid_rows and
\* total_dropped_rows all zero and no discarded rows, without raising an error.
C18_EmptyBatchReturnsZeros ==
    (Called /\ vloc.df.rows = <<>>) =>
        /\ vpc # "raised"
        /\ Returned =>
              /\ vloc.clean_df.rows = <<>>
              /\ vloc.report.total_input_rows = 0
              /\ vloc.report.total_valid_rows = 0
              /\ vloc.report.total_dropped_rows = 0
              /\ vloc.report.discarded_rows = <<>>

\* the records the call of writer p has to insert, worked out from its batch
\* and from the table as it was when the call started
ToInsert(p) ==
    DropDuplicates(NotExisting(EntityDf(loc[p].df, loc[p].entity),
                               DbDf(SelectExisting(hist[p].regs0, loc[p].entity))))

NonErrorMessages == {"no_records", "no_new"}

\* C19 as stated: when the set of records to insert for the entity is empty,
\* insert_new_records returns count 0 with a non-error message and performs no
\* store operation at all (no query, no insert, no association insert).
C19_NothingToInsertTouchesNoStore ==
    \A p \in Procs :
        (pc[p] = "done" /\ ToInsert(p) = <<>>) =>
            /\ loc[p].count = 0
            /\ loc[p].message \in NonErrorMessages
            /\ hist[p].ops = {}

\* C19 amended: when the set of records to insert for the entity is empty,
\* insert_new_records issues the query of the entity's existing records and no
\* other store operation (no insert, no read-back, no association insert),
\* leaves both tables as they were and returns count 0, with a non-error
\* message if the query succeeded and with an error message if it failed.
C19_NothingToInsertOnlyQueries ==
    \A p \in Procs :
        (pc[p] = "done" /\ ToInsert(p) = <<>>) =>
            /\ loc[p].count = 0
            /\ hist[p].ops = {"query"}
            /\ regs = hist[p].regs0
            /\ assoc = hist[p].assoc0
            /\ txn[p] = <<>>
            /\ IF hist[p].fault = "query"
               THEN loc[p].message = "error"
               ELSE loc[p].message \in NonErrorMessages

\* a batch whose rows of the entity are all persisted already
C19_Witness ==
    /\ pc[Writer] = "done"
    /\ ToInsert(Writer) = <<>>
    /\ loc[Writer].message = "no_new"
    /\ loc[Writer].duplicates_found >= 1
    /\ hist[Writer].ops = {"query"}

\* C20: when the entity has no rule set, validate returns the input batch
\* unchanged (same rows, same order, same fields and values) and a report with
\* total_valid_rows = total_input_rows, total_dropped_rows = 0, no discarded
\* rows and an empty invalid_by_field.
C20_NoRuleSetPassesThrough ==
    (Called /\ ~HasRules) =>
        /\ Returned
        /\ vloc.clean_df = vloc.df
        /\ vloc.report.total_input_rows = Len(vloc.df.rows)
        /\ vloc.report.total_valid_rows = vloc.report.total_input_rows
        /\ vloc.report.total_dropped_rows = 0
        /\ vloc.report.discarded_rows = <<>>
        /\ DOMAIN vloc.report.invalid_by_field = {}

\* a frame of two rows that the rule sets of the other entities would reject
C20_Witness ==
    /\ Returned /\ ~HasRules
    /\ Len(vloc.df.rows) = 2
    /\ vloc.df.rows[1]["title"] = NoneValue
    /\ vloc.clean_df.rows[1]["title"] = NoneValue

\* ------------------------------------------------------------------ claims on the rules file
\* the faults of a rules file
TopNotMapping(doc) == doc.json # "object"
SomeRuleSetNotMapping(doc) == \E e \in DOMAIN doc.items : doc.items[e].json # "object"
RulesIn(doc) ==
    UNION {Range(doc.items[e].items) : e \in {x \in DOMAIN doc.items : doc.items[x].json = "object"}}
SomeRuleNotMapping(doc) == \E rule \in RulesIn(doc) : rule.json # "object"
TypedRules(doc) == {rule \in RulesIn(doc) : rule.json = "object"}
SomeTypeUnsupported(doc) ==
    \E rule \in TypedRules(doc) : rule.type # "" /\ rule.type \notin {"int", "float", "date", "str"}
SomeRegexBroken(doc) ==
    \E rule \in TypedRules(doc) : rule.regex # <<>> /\ ~Compiles(rule.regex)

\* C21: loading a rule document fails, before any row is validated, whenever
\* the top level is not a mapping, a rule set or a field rule is not a mapping,
\* a declared type is outside the supported set, or a declared regex does not
\* compile; every rule set held by a constructed validator has only supported
\* types and regexes that compile.
C21_MalformedRulesRejectedAtLoad ==
    vpc # "new" =>
        /\ (TopNotMapping(rules)
              \/ (~TopNotMapping(rules) /\
                    (SomeRuleSetNotMapping(rules) \/ SomeRuleNotMapping(rules)
                       \/ SomeTypeUnsupported(rules) \/ SomeRegexBroken(rules))))
              => (vpc = "rejected" /\ vloc = NoValLoc)
        /\ vpc # "rejected" =>
              \A e \in DOMAIN rules.items : \A rule \in Range(rules.items[e].items) :
                  /\ rule.type \in {"", "int", "float", "date", "str"}
                  /\ rule.regex = <<>> \/ Compiles(rule.regex)

\* a file rejected for no other fault than a regex that does not compile
C21_Witness ==
    /\ vpc = "rejected"
    /\ ~TopNotMapping(rules) /\ ~SomeRuleSetNotMapping(rules) /\ ~SomeRuleNotMapping(rules)
    /\ ~SomeTypeUnsupported(rules)
    /\ SomeRegexBroken(rules)

\* the rules of a loaded file that declare the given type
RulesOfType(doc, type) == {rule \in TypedRules(doc) : rule.type = type}

\* C22 as stated: a rule document whose field rule declares type `string`
\* loads successfully (and validate trims the values of such a field).
C22_TypeStringLoads ==
    (vpc # "new" /\ ~TopNotMapping(rules) /\ RulesOfType(rules, "string") # {}) =>
        vpc # "rejected"

\* C22 amended: the type of text fields is named `str`: a rule document whose
\* field rule declares type `str` (and has no other fault) loads successfully,
\* and validate coerces a non-null value of such a field to its trimmed string
\* form; a document that declares type `string` is rejected at load.
C22_TypeStrLoadsAndTrims ==
    /\ (vpc # "new" /\ ~TopNotMapping(rules)) =>
          /\ RulesOfType(rules, "string") # {} => vpc = "rejected"
          /\ (RulesOfType(rules, "str") # {} /\ ~SomeRuleSetNotMapping(rules)
                /\ ~SomeRuleNotMapping(rules) /\ ~SomeTypeUnsupported(rules)
                /\ ~SomeRegexBroken(rules)) => vpc # "rejected"
    /\ (Returned /\ HasRules) =>
          \A j \in 1..Len(vloc.kept), k \in 1..Len(RuleSet) :
              LET f == RuleSet[k].field
                  value == InputValue(vloc.kept[j], f)
              IN  (RuleSet[k].type = "str" /\ ~IsNa(value) /\ ~Fails(vloc.kept[j], k)) =>
                      vloc.clean_df.rows[j][f] = Cell("str", Strip(value.v))

\* a kept row whose title came with blanks around it
C22_Witness ==
    /\ Returned /\ HasRules
    /\ \E j \in 1..Len(vloc.kept), k \in 1..Len(RuleSet) :
          /\ RuleSet[k].type = "str" /\ RuleSet[k].field = "title"
          /\ InputValue(vloc.kept[j], "title") = StrValue(<<" ", "a", "b">>)
          /\ vloc.clean_df.rows[j]["title"] = StrValue(<<"a", "b">>)

\* C23: a non-null value passes a field's regex check if and only if the
\* pattern matches starting at position 0 of the string form of the coerced
\* value (a date as YYYY-MM-DD); characters after the match are allowed, a
\* match that only starts later is rejected, and a mismatch on a field that is
\* not required marks the field invalid without discarding the row.
C23_RegexMatchesFromStart ==
    [][TurnOfRow =>
        LET i == vloc.pos
            kept == Len(vloc'.validated_data) = Len(vloc.validated_data) + 1
            new_row == vloc'.validated_data[Len(vloc'.validated_data)]
            dropped == Len(vloc'.discarded_rows) = Len(vloc.discarded_rows) + 1
            entry == vloc'.discarded_rows[Len(vloc'.discarded_rows)]
        IN  \A k \in 1..Len(RuleSet) :
                LET f == RuleSet[k].field
                    value == InputValue(i, f)
                    c == Coerce(RuleSet[k].type, value)
                    passes == MatchFrom(RuleSet[k].regex, c.value.v, 1)
                IN  (RuleSet[k].regex # <<>> /\ ~IsNa(value) /\ c.ok
                       /\ <<i, f>> \in vloc'.evaluated) =>
                        IF passes
                        THEN /\ vloc'.invalid_by_field[f] = vloc.invalid_by_field[f]
                             /\ kept => new_row[f] = c.value
                        ELSE /\ vloc'.invalid_by_field[f] = vloc.invalid_by_field[f] + 1
                             /\ kept => new_row[f] = NoneValue
                             /\ ~RuleSet[k].required =>
                                   /\ dropped => entry.reason # f /\ RequiredFails(i)
                                   /\ ~RequiredFails(i) => kept
    ]_vars

\* a kept row whose summary has the letter of the pattern only at its second
\* position, and a kept row whose date matches the pattern in its rendered
\* form only, with characters left over after the match
C23_Witness ==
    /\ Returned /\ HasRules
    /\ \E j \in 1..Len(vloc.kept) :
          /\ InputValue(vloc.kept[j], "summary") = StrValue(<<"t", "s">>)
          /\ \E k \in 1..Len(RuleSet) : RuleSet[k].field = "summary" /\ RuleSet[k].regex = <<"s">>
          /\ vloc.clean_df.rows[j]["summary"] = NoneValue
          /\ vloc.report.invalid_by_field["summary"] >= 1
    /\ \E j \in 1..Len(vloc.kept) :
          /\ InputValue(vloc.kept[j], "created_at") = Jan5
          /\ \E k \in 1..Len(RuleSet) :
                RuleSet[k].field = "created_at" /\ RuleSet[k].regex = InJanuary2024
          /\ vloc.clean_df.rows[j]["created_at"] = Cell("date", Jan05.v)

\* the rules of input row i whose required field is null or fails
FailingRequired(i) ==
    {k \in 1..Len(RuleSet) :
        RuleSet[k].required /\ (IsNa(InputValue(i, RuleSet[k].field)) \/ Fails(i, k))}

\* C28: validate evaluates a row's fields in the declaration order of the rule
\* set and stops at the first required field that is null or invalid: no later
\* field of that row is evaluated or counted in invalid_by_field, and the
\* discard reason names that first failing field.
C28_StopsAtFirstFailingRequired ==
    [][TurnOfRow =>
        LET i == vloc.pos
            kept == Len(vloc'.validated_data) = Len(vloc.validated_data) + 1
            dropped == Len(vloc'.discarded_rows) = Len(vloc.discarded_rows) + 1
            entry == vloc'.discarded_rows[Len(vloc'.discarded_rows)]
            seen == {f \in FieldsOf(RuleSet) : <<i, f>> \in vloc'.evaluated}
        IN  IF FailingRequired(i) = {}
            THEN kept /\ ~dropped /\ seen = FieldsOf(RuleSet)
            ELSE LET first == CHOOSE k \in FailingRequired(i) :
                                  \A x \in FailingRequired(i) : k <= x
                 IN  /\ dropped /\ ~kept
                     /\ entry.reason = RuleSet[first].field
                     /\ seen = {RuleSet[k].field : k \in 1..first}
                     /\ \A k \in (first + 1)..Len(RuleSet) :
                           vloc'.invalid_by_field[RuleSet[k].field] =
                               vloc.invalid_by_field[RuleSet[k].field]
    ]_vars

\* a row dropped for its first field while a later field of it would have
\* failed too and is counted nowhere
C28_Witness ==
    /\ Returned /\ HasRules
    /\ \E i \in InputRows, k \in 1..Len(RuleSet) :
          /\ Discarded(i)
          /\ Fails(i, k) /\ ~Reached(i, k)
          /\ <<i, RuleSet[k].field>> \notin vloc.evaluated
          /\ vloc.report.invalid_by_field[RuleSet[k].field] = 0

\* an exception has left run_validation: the ValueError of the constructor for
\* a malformed rules file, or the ValueError of validate for missing columns
RaisedOutOfRunValidation == vpc \in {"rejected", "raised"}

\* the call of insert_new_records of writer p has ended in an exception
\* instead of a returned (count, message)
RaisedOutOfInsert(p) == pc[p] = "done" /\ loc[p].message = "none"

\* C25: every fatal error (malformed rule document, required column missing
\* from the batch, store failure during the write) reaches the caller as a
\* returned failure result rather than as an exception raised out of the
\* validation or write entry point.
C25_FatalErrorsAreReturned ==
    /\ ~RaisedOutOfRunValidation
    /\ \A p \in Procs : ~RaisedOutOfInsert(p)

\* ------------------------------------------------------------------ claims on the insert, continued
\* C24: when the bulk insert fails with a cause that indicates a uniqueness or
\* duplicate conflict, insert_new_records returns count 0 with the softer
\* "duplicates and skipped" message and the store is left unchanged; any other
\* insert failure is reported as a generic processing error, also with count 0.
C24_InsertFailureMessages ==
    \A p \in Procs :
        (pc[p] = "done" /\ hist[p].fault = "insert") =>
            /\ loc[p].count = 0
            /\ regs = hist[p].regs0
            /\ assoc = hist[p].assoc0
            /\ txn[p] = <<>>
            /\ hist[p].cause = "unique" => loc[p].message = "dup_skipped"
            /\ hist[p].cause # "unique" => loc[p].message = "error"

\* a uniqueness conflict at the second row of the statement, after the first
\* row had been written and was rolled back
C24_Witness ==
    /\ pc[Writer] = "done"
    /\ hist[Writer].fault = "insert"
    /\ hist[Writer].cause = "unique"
    /\ loc[Writer].message = "dup_skipped"
    /\ Len(loc[Writer].new_records) = 2
    /\ nextId > MaxOf({r.id : r \in regs}) + 1

\* C29: on every exit path of insert_new_records, a failure of the identifier
\* read-back query after the insert has committed included, the returned count
\* equals the number of records that call added to the regulations table.
C29_CountIsRowsAdded ==
    pc[Writer] = "done" =>
        loc[Writer].count = Cardinality(regs \ hist[Writer].regs0)

\* the records inserted by a call that is over and that no association row
\* refers to
Orphans ==
    {r \in EngineRows :
        /\ r.id \notin hist[Writer].mine
        /\ \A i \in 1..Len(assoc) : assoc[i].regulations_id # r.id}

\* the step is the query and reconciliation of a new call
ReconcileStep == runs' = runs + 1

\* C30: a record whose association insert failed in one run stays persisted
\* without an association row, and every later single-writer run on a batch
\* containing that record classifies it as duplicate-against-existing and
\* neither re-inserts it nor creates an association row for it.
C30_OrphanStaysAndIsNotReinserted ==
    [][\A r \in Orphans :
          /\ r \in regs'
          /\ \A i \in 1..Len(assoc') : assoc'[i].regulations_id # r.id
          /\ \A r2 \in regs' \ regs :
                ~(r2.entity = r.entity /\ IdentityKey(r2) = IdentityKey(r))
          /\ ReconcileStep =>
                LET l == loc'[Writer]
                    hits == {j \in 1..Len(l.entity_df) :
                                r.entity = l.entity /\ Subset3(l.entity_df[j]) = IdentityKey(r)}
                IN  hits # {} =>
                        /\ l.duplicates_found >= Cardinality(hits)
                        /\ \A j \in hits : \A n \in 1..Len(l.new_records) :
                              l.new_records[n].idx # l.entity_df[j].idx
    ]_vars

\* the run that follows a run whose association insert failed, on the same
\* batch: the records are still there, flagged as duplicates, without an
\* association row
C30_Witness ==
    /\ pc[Writer] = "done"
    /\ hist[Writer].again
    /\ hist[Writer].before = "components"
    /\ hist[Writer].fault = "none"
    /\ Orphans # {}
    /\ loc[Writer].duplicates_found >= 1
    /\ loc[Writer].count = 0

\* C27: with two pipeline instances running insert_new_records concurrently
\* for the same entity on batches that share a record, under every interleaving
\* the store still ends with at most one record per identity key.
C27_ConcurrentWritersKeepKeysUnique ==
    (\A p \in Procs : pc[p] = "done") =>
        \A r1 \in EngineRows, r2 \in regs :
            (r1.entity = r2.entity /\ IdentityKey(r1) = IdentityKey(r2)) => r1 = r2

\* ------------------------------------------------------------------ claims on lambda_handler
\* C26: every store connection that a run opens successfully is closed on every
\* exit path of that run (success, query failure, insert failure), so no
\* connection remains open after lambda_handler or check_for_new_content
\* returns.
C26_NoConnectionLeftOpen ==
    /\ lpc = "returned" => conns = {}
    /\ lpc \in {"scrape", "connect", "insert", "returned"} => "check" \notin conns

====
